---- MODULE Spec2Model ----
(***************************************************************************)
(* A model of two files of gecko:                                          *)
(*   snow/networking/sender/test_external_sender.go  (ExternalSenderTest)  *)
(*   genesis/genesis.go   (NetworkName, NetworkID, Genesis, Aliases,       *)
(*                         VMGenesis)                                      *)
(***************************************************************************)
EXTENDS Integers, Sequences, FiniteSets, TLC

VARIABLES s, pre, last, g

vars == <<s, pre, last, g>>

(***************************************************************************)
(* Part I.  ExternalSenderTest                                             *)
(***************************************************************************)

\* A nil pointer or a nil func value.
NIL == "nil"

\* Largest number of operations whose flag or handler a test sets when it
\* constructs the sender (the other fields keep Go's zero value).
MaxConfigured == 1

\* Values the callers pass.
Validators == {"v1", "v2"}
IDs == {"id1", "id2"}
RequestIDs == {1}
Containers == {<<>>, <<7>>}

\* ids.ShortID, ids.ShortSet, ids.ID, ids.Set, uint32 and []byte values.
ShortIDs == {[ShortID |-> v] : v \in Validators}
ShortSets == {[ShortSet |-> S] : S \in {{"v1"}, Validators}}
IDSets == {{}, IDs}

Ops == {"GetAcceptedFrontier", "AcceptedFrontier", "GetAccepted", "Accepted",
        "Get", "Put", "PushQuery", "PullQuery", "Chits"}

CantFields == {"CantGetAcceptedFrontier", "CantAcceptedFrontier",
               "CantGetAccepted", "CantAccepted", "CantGet", "CantPut",
               "CantPullQuery", "CantPushQuery", "CantChits"}

HandlerFields == {"GetAcceptedFrontierF", "AcceptedFrontierF", "GetAcceptedF",
                  "AcceptedF", "GetF", "PutF", "PushQueryF", "PullQueryF",
                  "ChitsF"}

\* The flag and the handler field that belong to an operation.
FlagOf(op) ==
    CASE op = "GetAcceptedFrontier" -> "CantGetAcceptedFrontier"
      [] op = "AcceptedFrontier" -> "CantAcceptedFrontier"
      [] op = "GetAccepted" -> "CantGetAccepted"
      [] op = "Accepted" -> "CantAccepted"
      [] op = "Get" -> "CantGet"
      [] op = "Put" -> "CantPut"
      [] op = "PushQuery" -> "CantPushQuery"
      [] op = "PullQuery" -> "CantPullQuery"
      [] op = "Chits" -> "CantChits"

HandlerOf(op) ==
    CASE op = "GetAcceptedFrontier" -> "GetAcceptedFrontierF"
      [] op = "AcceptedFrontier" -> "AcceptedFrontierF"
      [] op = "GetAccepted" -> "GetAcceptedF"
      [] op = "Accepted" -> "AcceptedF"
      [] op = "Get" -> "GetF"
      [] op = "Put" -> "PutF"
      [] op = "PushQuery" -> "PushQueryF"
      [] op = "PullQuery" -> "PullQueryF"
      [] op = "Chits" -> "ChitsF"

\* Get taking a set of peers like the other requests.
Targets_GetSet(op) ==
    IF op \in {"GetAcceptedFrontier", "GetAccepted", "PushQuery", "PullQuery",
               "Get"}
    THEN ShortSets
    ELSE ShortIDs

\* The type of an operation's first parameter, the peer or peers it targets.
Targets(op) ==
    IF op \in {"GetAcceptedFrontier", "GetAccepted", "PushQuery", "PullQuery"}
    THEN ShortSets
    ELSE ShortIDs

\* The struct: T, B, nine flags, nine handlers.
ExternalSenderTest(t, b, cants, handlers) ==
    [T |-> t, B |-> b,
     CantGetAcceptedFrontier |-> "CantGetAcceptedFrontier" \in cants,
     CantAcceptedFrontier |-> "CantAcceptedFrontier" \in cants,
     CantGetAccepted |-> "CantGetAccepted" \in cants,
     CantAccepted |-> "CantAccepted" \in cants,
     CantGet |-> "CantGet" \in cants,
     CantPut |-> "CantPut" \in cants,
     CantPullQuery |-> "CantPullQuery" \in cants,
     CantPushQuery |-> "CantPushQuery" \in cants,
     CantChits |-> "CantChits" \in cants,
     GetAcceptedFrontierF |->
         IF "GetAcceptedFrontierF" \in handlers THEN "func" ELSE NIL,
     AcceptedFrontierF |->
         IF "AcceptedFrontierF" \in handlers THEN "func" ELSE NIL,
     GetAcceptedF |-> IF "GetAcceptedF" \in handlers THEN "func" ELSE NIL,
     AcceptedF |-> IF "AcceptedF" \in handlers THEN "func" ELSE NIL,
     GetF |-> IF "GetF" \in handlers THEN "func" ELSE NIL,
     PutF |-> IF "PutF" \in handlers THEN "func" ELSE NIL,
     PushQueryF |-> IF "PushQueryF" \in handlers THEN "func" ELSE NIL,
     PullQueryF |-> IF "PullQueryF" \in handlers THEN "func" ELSE NIL,
     ChitsF |-> IF "ChitsF" \in handlers THEN "func" ELSE NIL]

\* What one method call did: the handler field it called and with which
\* arguments (NIL when none), and the testing object Fatalf was called on with
\* its message (NIL when none).
Called(op, args, field, passed) ==
    [op |-> op, args |-> args, called |-> field, passed |-> passed,
     fatalOn |-> NIL, msg |-> ""]

Fatalf(op, args, on, text) ==
    [op |-> op, args |-> args, called |-> NIL, passed |-> <<>>,
     fatalOn |-> on, msg |-> text]

Nothing(op, args) ==
    [op |-> op, args |-> args, called |-> NIL, passed |-> <<>>,
     fatalOn |-> NIL, msg |-> ""]

NoCall == Nothing("", <<>>)

\* Default leaving CantChits out.
Default_ForgetsChits(cant) ==
    /\ s' = [s EXCEPT !.CantGetAcceptedFrontier = cant,
                      !.CantAcceptedFrontier = cant,
                      !.CantGetAccepted = cant,
                      !.CantAccepted = cant,
                      !.CantGet = cant,
                      !.CantPut = cant,
                      !.CantPullQuery = cant,
                      !.CantPushQuery = cant]
    /\ pre' = s
    /\ last' = Nothing("Default", <<cant>>)
    /\ UNCHANGED g

\* Default set the default callable value to [cant]
Default(cant) ==
    /\ s' = [s EXCEPT !.CantGetAcceptedFrontier = cant,
                      !.CantAcceptedFrontier = cant,
                      !.CantGetAccepted = cant,
                      !.CantAccepted = cant,
                      !.CantGet = cant,
                      !.CantPut = cant,
                      !.CantPullQuery = cant,
                      !.CantPushQuery = cant,
                      !.CantChits = cant]
    /\ pre' = s
    /\ last' = Nothing("Default", <<cant>>)
    /\ UNCHANGED g

GetAcceptedFrontier(validatorIDs, chainID, requestID) ==
    LET args == <<validatorIDs, chainID, requestID>> IN
    /\ last' = IF s.GetAcceptedFrontierF # NIL
               THEN Called("GetAcceptedFrontier", args, "GetAcceptedFrontierF",
                           <<validatorIDs, chainID, requestID>>)
               ELSE IF s.CantGetAcceptedFrontier /\ s.T # NIL
               THEN Fatalf("GetAcceptedFrontier", args, "T",
                           "Unexpectedly called GetAcceptedFrontier")
               ELSE IF s.CantGetAcceptedFrontier /\ s.B # NIL
               THEN Fatalf("GetAcceptedFrontier", args, "B",
                           "Unexpectedly called GetAcceptedFrontier")
               ELSE Nothing("GetAcceptedFrontier", args)
    /\ pre' = s
    /\ UNCHANGED <<s, g>>

AcceptedFrontier(validatorID, chainID, requestID, containerIDs) ==
    LET args == <<validatorID, chainID, requestID, containerIDs>> IN
    /\ last' = IF s.AcceptedFrontierF # NIL
               THEN Called("AcceptedFrontier", args, "AcceptedFrontierF",
                           <<validatorID, chainID, requestID, containerIDs>>)
               ELSE IF s.CantAcceptedFrontier /\ s.T # NIL
               THEN Fatalf("AcceptedFrontier", args, "T",
                           "Unexpectedly called AcceptedFrontier")
               ELSE IF s.CantAcceptedFrontier /\ s.B # NIL
               THEN Fatalf("AcceptedFrontier", args, "B",
                           "Unexpectedly called AcceptedFrontier")
               ELSE Nothing("AcceptedFrontier", args)
    /\ pre' = s
    /\ UNCHANGED <<s, g>>

GetAccepted(validatorIDs, chainID, requestID, containerIDs) ==
    LET args == <<validatorIDs, chainID, requestID, containerIDs>> IN
    /\ last' = IF s.GetAcceptedF # NIL
               THEN Called("GetAccepted", args, "GetAcceptedF",
                           <<validatorIDs, chainID, requestID, containerIDs>>)
               ELSE IF s.CantGetAccepted /\ s.T # NIL
               THEN Fatalf("GetAccepted", args, "T",
                           "Unexpectedly called GetAccepted")
               ELSE IF s.CantGetAccepted /\ s.B # NIL
               THEN Fatalf("GetAccepted", args, "B",
                           "Unexpectedly called GetAccepted")
               ELSE Nothing("GetAccepted", args)
    /\ pre' = s
    /\ UNCHANGED <<s, g>>

Accepted(validatorID, chainID, requestID, containerIDs) ==
    LET args == <<validatorID, chainID, requestID, containerIDs>> IN
    /\ last' = IF s.AcceptedF # NIL
               THEN Called("Accepted", args, "AcceptedF",
                           <<validatorID, chainID, requestID, containerIDs>>)
               ELSE IF s.CantAccepted /\ s.T # NIL
               THEN Fatalf("Accepted", args, "T",
                           "Unexpectedly called Accepted")
               ELSE IF s.CantAccepted /\ s.B # NIL
               THEN Fatalf("Accepted", args, "B",
                           "Unexpectedly called Accepted")
               ELSE Nothing("Accepted", args)
    /\ pre' = s
    /\ UNCHANGED <<s, g>>

\* Get failing without looking at CantGet.
Get_IgnoresFlag(vdr, chainID, requestID, vtxID) ==
    LET args == <<vdr, chainID, requestID, vtxID>> IN
    /\ last' = IF s.GetF # NIL
               THEN Called("Get", args, "GetF",
                           <<vdr, chainID, requestID, vtxID>>)
               ELSE IF s.T # NIL
               THEN Fatalf("Get", args, "T", "Unexpectedly called Get")
               ELSE IF s.B # NIL
               THEN Fatalf("Get", args, "B", "Unexpectedly called Get")
               ELSE Nothing("Get", args)
    /\ pre' = s
    /\ UNCHANGED <<s, g>>

Get(vdr, chainID, requestID, vtxID) ==
    LET args == <<vdr, chainID, requestID, vtxID>> IN
    /\ last' = IF s.GetF # NIL
               THEN Called("Get", args, "GetF",
                           <<vdr, chainID, requestID, vtxID>>)
               ELSE IF s.CantGet /\ s.T # NIL
               THEN Fatalf("Get", args, "T", "Unexpectedly called Get")
               ELSE IF s.CantGet /\ s.B # NIL
               THEN Fatalf("Get", args, "B", "Unexpectedly called Get")
               ELSE Nothing("Get", args)
    /\ pre' = s
    /\ UNCHANGED <<s, g>>

\* Put handing chainID and vtxID to PutF in each other's place.
Put_Swapped(vdr, chainID, requestID, vtxID, vtx) ==
    LET args == <<vdr, chainID, requestID, vtxID, vtx>> IN
    /\ last' = IF s.PutF # NIL
               THEN Called("Put", args, "PutF",
                           <<vdr, vtxID, requestID, chainID, vtx>>)
               ELSE IF s.CantPut /\ s.T # NIL
               THEN Fatalf("Put", args, "T", "Unexpectedly called Put")
               ELSE IF s.CantPut /\ s.B # NIL
               THEN Fatalf("Put", args, "B", "Unexpectedly called Put")
               ELSE Nothing("Put", args)
    /\ pre' = s
    /\ UNCHANGED <<s, g>>

Put(vdr, chainID, requestID, vtxID, vtx) ==
    LET args == <<vdr, chainID, requestID, vtxID, vtx>> IN
    /\ last' = IF s.PutF # NIL
               THEN Called("Put", args, "PutF",
                           <<vdr, chainID, requestID, vtxID, vtx>>)
               ELSE IF s.CantPut /\ s.T # NIL
               THEN Fatalf("Put", args, "T", "Unexpectedly called Put")
               ELSE IF s.CantPut /\ s.B # NIL
               THEN Fatalf("Put", args, "B", "Unexpectedly called Put")
               ELSE Nothing("Put", args)
    /\ pre' = s
    /\ UNCHANGED <<s, g>>

\* PushQuery reading PullQuery's flag.
PushQuery_Crossed(vdrs, chainID, requestID, vtxID, vtx) ==
    LET args == <<vdrs, chainID, requestID, vtxID, vtx>> IN
    /\ last' = IF s.PushQueryF # NIL
               THEN Called("PushQuery", args, "PushQueryF",
                           <<vdrs, chainID, requestID, vtxID, vtx>>)
               ELSE IF s.CantPullQuery /\ s.T # NIL
               THEN Fatalf("PushQuery", args, "T",
                           "Unexpectedly called PushQuery")
               ELSE IF s.CantPullQuery /\ s.B # NIL
               THEN Fatalf("PushQuery", args, "B",
                           "Unexpectedly called PushQuery")
               ELSE Nothing("PushQuery", args)
    /\ pre' = s
    /\ UNCHANGED <<s, g>>

PushQuery(vdrs, chainID, requestID, vtxID, vtx) ==
    LET args == <<vdrs, chainID, requestID, vtxID, vtx>> IN
    /\ last' = IF s.PushQueryF # NIL
               THEN Called("PushQuery", args, "PushQueryF",
                           <<vdrs, chainID, requestID, vtxID, vtx>>)
               ELSE IF s.CantPushQuery /\ s.T # NIL
               THEN Fatalf("PushQuery", args, "T",
                           "Unexpectedly called PushQuery")
               ELSE IF s.CantPushQuery /\ s.B # NIL
               THEN Fatalf("PushQuery", args, "B",
                           "Unexpectedly called PushQuery")
               ELSE Nothing("PushQuery", args)
    /\ pre' = s
    /\ UNCHANGED <<s, g>>

PullQuery(vdrs, chainID, requestID, vtxID) ==
    LET args == <<vdrs, chainID, requestID, vtxID>> IN
    /\ last' = IF s.PullQueryF # NIL
               THEN Called("PullQuery", args, "PullQueryF",
                           <<vdrs, chainID, requestID, vtxID>>)
               ELSE IF s.CantPullQuery /\ s.T # NIL
               THEN Fatalf("PullQuery", args, "T",
                           "Unexpectedly called PullQuery")
               ELSE IF s.CantPullQuery /\ s.B # NIL
               THEN Fatalf("PullQuery", args, "B",
                           "Unexpectedly called PullQuery")
               ELSE Nothing("PullQuery", args)
    /\ pre' = s
    /\ UNCHANGED <<s, g>>

\* Chits without the branch that reports on B.
Chits_NoB(vdr, chainID, requestID, votes) ==
    LET args == <<vdr, chainID, requestID, votes>> IN
    /\ last' = IF s.ChitsF # NIL
               THEN Called("Chits", args, "ChitsF",
                           <<vdr, chainID, requestID, votes>>)
               ELSE IF s.CantChits /\ s.T # NIL
               THEN Fatalf("Chits", args, "T", "Unexpectedly called Chits")
               ELSE Nothing("Chits", args)
    /\ pre' = s
    /\ UNCHANGED <<s, g>>

Chits(vdr, chainID, requestID, votes) ==
    LET args == <<vdr, chainID, requestID, votes>> IN
    /\ last' = IF s.ChitsF # NIL
               THEN Called("Chits", args, "ChitsF",
                           <<vdr, chainID, requestID, votes>>)
               ELSE IF s.CantChits /\ s.T # NIL
               THEN Fatalf("Chits", args, "T", "Unexpectedly called Chits")
               ELSE IF s.CantChits /\ s.B # NIL
               THEN Fatalf("Chits", args, "B", "Unexpectedly called Chits")
               ELSE Nothing("Chits", args)
    /\ pre' = s
    /\ UNCHANGED <<s, g>>

\* The idle value of the genesis package's call record.
GIdle == [pc |-> "done", fn |-> "", arg |-> <<>>, ret |-> <<>>, from |-> <<>>]

\* A sender as a test constructs it: any of T and B, and the flag and the
\* handler of a few operations.
SenderInit ==
    /\ \E t \in {NIL, "t"}, b \in {NIL, "b"} :
       \E cants \in SUBSET CantFields, handlers \in SUBSET HandlerFields :
          /\ Cardinality({op \in Ops : FlagOf(op) \in cants
                                        \/ HandlerOf(op) \in handlers})
                <= MaxConfigured
          /\ s = ExternalSenderTest(t, b, cants, handlers)
    /\ pre = s
    /\ last = NoCall
    /\ g = GIdle

SenderNext ==
    \/ \E cant \in BOOLEAN : Default(cant)
    \/ \E validatorIDs \in Targets("GetAcceptedFrontier"), chainID \in IDs,
          requestID \in RequestIDs :
          GetAcceptedFrontier(validatorIDs, chainID, requestID)
    \/ \E validatorID \in Targets("AcceptedFrontier"), chainID \in IDs,
          requestID \in RequestIDs,
          containerIDs \in IDSets :
          AcceptedFrontier(validatorID, chainID, requestID, containerIDs)
    \/ \E validatorIDs \in Targets("GetAccepted"), chainID \in IDs,
          requestID \in RequestIDs,
          containerIDs \in IDSets :
          GetAccepted(validatorIDs, chainID, requestID, containerIDs)
    \/ \E validatorID \in Targets("Accepted"), chainID \in IDs,
          requestID \in RequestIDs,
          containerIDs \in IDSets :
          Accepted(validatorID, chainID, requestID, containerIDs)
    \/ \E vdr \in Targets("Get"), chainID \in IDs,
          requestID \in RequestIDs,
          vtxID \in IDs :
          Get(vdr, chainID, requestID, vtxID)
    \/ \E vdr \in Targets("Put"), chainID \in IDs,
          requestID \in RequestIDs,
          vtxID \in IDs, vtx \in Containers :
          Put(vdr, chainID, requestID, vtxID, vtx)
    \/ \E vdrs \in Targets("PushQuery"), chainID \in IDs,
          requestID \in RequestIDs,
          vtxID \in IDs, vtx \in Containers :
          PushQuery(vdrs, chainID, requestID, vtxID, vtx)
    \/ \E vdrs \in Targets("PullQuery"), chainID \in IDs,
          requestID \in RequestIDs,
          vtxID \in IDs :
          PullQuery(vdrs, chainID, requestID, vtxID)
    \/ \E vdr \in Targets("Chits"), chainID \in IDs,
          requestID \in RequestIDs,
          votes \in IDSets :
          Chits(vdr, chainID, requestID, votes)

Spec == SenderInit /\ [][SenderNext]_vars

(***************************************************************************)
(* Part II.  package genesis                                               *)
(*                                                                         *)
(* A Go string is a sequence of one-character strings.  A uint32 is a      *)
(* pair of 16-bit limbs <<low, high>> and a uint64 four of them, so that   *)
(* values up to 2^64 and their overflow are computed exactly.              *)
(***************************************************************************)

Base == 2^16

DigitChars == <<"0", "1", "2", "3", "4", "5", "6", "7", "8", "9">>
UpperChars ==
    <<"A", "B", "C", "D", "E", "F", "G", "H", "I", "J", "K", "L", "M", "N",
      "O", "P", "Q", "R", "S", "T", "U", "V", "W", "X", "Y", "Z">>
LowerChars ==
    <<"a", "b", "c", "d", "e", "f", "g", "h", "i", "j", "k", "l", "m", "n",
      "o", "p", "q", "r", "s", "t", "u", "v", "w", "x", "y", "z">>

Range(f) == {f[i] : i \in DOMAIN f}

DigitVal(c) == (CHOOSE i \in 1..10 : DigitChars[i] = c) - 1

\* A small uint32 constant as limbs.
U32(n) == <<n % Base, n \div Base>>

\* Hardcoded network IDs
MainnetID == 1
TestnetID == 2
BorealisID == 2
LocalID == 12345

MainnetName == <<"m", "a", "i", "n", "n", "e", "t">>
TestnetName == <<"t", "e", "s", "t", "n", "e", "t">>
BorealisName == <<"b", "o", "r", "e", "a", "l", "i", "s">>
LocalName == <<"l", "o", "c", "a", "l">>

\* Give special names to the mainnet and testnet
NetworkIDToNetworkName ==
    [id \in {U32(MainnetID), U32(TestnetID), U32(LocalID)} |->
        CASE id = U32(MainnetID) -> MainnetName
          [] id = U32(TestnetID) -> BorealisName
          [] id = U32(LocalID) -> LocalName]

NetworkNameToNetworkID ==
    [name \in {MainnetName, TestnetName, BorealisName, LocalName} |->
        CASE name = MainnetName -> U32(MainnetID)
          [] name = TestnetName -> U32(TestnetID)
          [] name = BorealisName -> U32(BorealisID)
          [] name = LocalName -> U32(LocalID)]

\* strings.ToLower on ASCII text.
ToLowerChar(c) ==
    IF c \in Range(UpperChars)
    THEN LowerChars[CHOOSE i \in DOMAIN UpperChars : UpperChars[i] = c]
    ELSE c

ToLower(str) == [i \in DOMAIN str |-> ToLowerChar(str[i])]

\* x*m + c over limbs; the result has one limb more than x, the carry out.
RECURSIVE MulAdd(_, _, _)
MulAdd(x, m, c) ==
    IF x = <<>>
    THEN <<c>>
    ELSE LET v == Head(x) * m + c
         IN  <<v % Base>> \o MulAdd(Tail(x), m, v \div Base)

Zero64 == <<0, 0, 0, 0>>

\* The digit loop of strconv.ParseUint(s, 10, 64): a character that is no
\* digit is a syntax error, a value past 2^64-1 a range error.
RECURSIVE ParseDigits(_, _)
ParseDigits(str, acc) ==
    IF str = <<>>
    THEN [n |-> acc, err |-> NIL]
    ELSE IF Head(str) \notin Range(DigitChars)
    THEN [n |-> Zero64, err |-> "ErrSyntax"]
    ELSE LET r == MulAdd(acc, 10, DigitVal(Head(str)))
         IN  IF r[5] # 0
             THEN [n |-> Zero64, err |-> "ErrRange"]
             ELSE ParseDigits(Tail(str), SubSeq(r, 1, 4))

\* strconv.ParseUint(s, 10, 0) where uint has 64 bits.
ParseUint(str) ==
    IF str = <<>>
    THEN [n |-> Zero64, err |-> "ErrSyntax"]
    ELSE ParseDigits(str, Zero64)

\* strconv.Atoi where int has 64 bits: an optional sign, then digits; the
\* result is a sign and a magnitude, within [-2^63, 2^63-1].
Atoi(str) ==
    LET signed == str # <<>> /\ Head(str) \in {"+", "-"}
        neg == str # <<>> /\ Head(str) = "-"
        un == ParseUint(IF signed THEN Tail(str) ELSE str)
        cutoff == un.n[4] >= 2^15
        atCutoff == un.n = <<0, 0, 0, 2^15>>
    IN  IF str = <<>>
        THEN [neg |-> FALSE, n |-> Zero64, err |-> "ErrSyntax"]
        ELSE IF un.err # NIL
        THEN [neg |-> FALSE, n |-> Zero64, err |-> un.err]
        ELSE IF (~neg /\ cutoff) \/ (neg /\ cutoff /\ ~atCutoff)
        THEN [neg |-> FALSE, n |-> Zero64, err |-> "ErrRange"]
        ELSE [neg |-> neg /\ un.n # Zero64, n |-> un.n, err |-> NIL]

\* uint32(id) of a 64-bit value: the low 32 bits, in two's complement when
\* the value is negative.
Uint32(neg, n) ==
    IF ~neg
    THEN <<n[1], n[2]>>
    ELSE IF n[1] = 0
    THEN <<0, (Base - n[2]) % Base>>
    ELSE <<Base - n[1], Base - 1 - n[2]>>

\* The comparison made against math.MaxInt32.
GreaterThanMaxInt32(neg, n) == ~neg /\ (n[3] # 0 \/ n[4] # 0 \/ n[2] >= 2^15)

\* id > math.MaxUint32
GreaterThanMaxUint32(neg, n) == ~neg /\ (n[3] # 0 \/ n[4] # 0)

NetworkPrefix == <<"n", "e", "t", "w", "o", "r", "k", "-">>

\* validNetworkName.MatchString: the pattern network-[0-9]+ matches when it
\* occurs anywhere in the string.
validNetworkName(str) ==
    \E i \in 1..Len(str) :
        /\ i + 8 <= Len(str)
        /\ SubSeq(str, i, i + 7) = NetworkPrefix
        /\ str[i + 8] \in Range(DigitChars)

\* fmt.Sprintf("%d", n) of a uint32.
RECURSIVE FormatUint32(_)
FormatUint32(n) ==
    LET lo1 == (n[2] % 10) * Base + n[1]
        q == <<lo1 \div 10, n[2] \div 10>>
        r == lo1 % 10
    IN  IF n[2] = 0 /\ n[1] < 10
        THEN <<DigitChars[n[1] + 1]>>
        ELSE FormatUint32(q) \o <<DigitChars[r + 1]>>

\* NetworkName returns a human readable name for the network with
\* ID [networkID]
NetworkName(networkID) ==
    IF networkID \in DOMAIN NetworkIDToNetworkName
    THEN NetworkIDToNetworkName[networkID]
    ELSE NetworkPrefix \o FormatUint32(networkID)

ErrNotInRange == "NetworkID not in [0, 2^32)"
ErrFailedToParse == "Failed to parse as a network name"

\* NetworkID returns the ID of the network with name [networkName]
NetworkID(name) ==
    LET networkName == ToLower(name)
        u == ParseUint(networkName)
        a == Atoi(SubSeq(networkName, 9, Len(networkName)))
    IN  IF networkName \in DOMAIN NetworkNameToNetworkID
        THEN [id |-> NetworkNameToNetworkID[networkName], err |-> NIL]
        ELSE IF u.err = NIL
        THEN IF GreaterThanMaxUint32(FALSE, u.n)
             THEN [id |-> U32(0), err |-> ErrNotInRange]
             ELSE [id |-> Uint32(FALSE, u.n), err |-> NIL]
        ELSE IF validNetworkName(networkName) /\ a.err = NIL
        THEN IF GreaterThanMaxUint32(a.neg, a.n)
             THEN [id |-> U32(0), err |-> ErrNotInRange]
             ELSE [id |-> Uint32(a.neg, a.n), err |-> NIL]
        ELSE [id |-> U32(0), err |-> ErrFailedToParse]

\* The identifiers of the virtual machines (platformvm.ID, avm.ID, ...) and
\* ids.Empty, the ID of the platform chain.  The ID of a chain is a tuple, the
\* empty one for ids.Empty.
platformvmID == "platformvm.ID"
avmID == "avm.ID"
evmID == "evm.ID"
spdagvmID == "spdagvm.ID"
spchainvmID == "spchainvm.ID"
timestampvmID == "timestampvm.ID"
idsEmpty == <<>>

\* platformvm.Codec.Marshal of a platformvm.Genesis: each list is written as
\* its length followed by its elements, a chain as its name and its VMID (the
\* ID of a chain is derived from its contents and is not written).
RECURSIVE MarshalChains(_)
MarshalChains(chains) ==
    IF chains = <<>>
    THEN <<>>
    ELSE <<Head(chains).ChainName, Head(chains).VMID>>
         \o MarshalChains(Tail(chains))

Marshal(genesis) ==
    <<Len(genesis.Accounts)>> \o genesis.Accounts
    \o <<Len(genesis.Validators)>> \o genesis.Validators
    \o <<Len(genesis.Chains)>> \o MarshalChains(genesis.Chains)
    \o <<genesis.Timestamp>>

\* The zero value of platformvm.Genesis.
ZeroGenesis ==
    [Accounts |-> <<>>, Validators |-> <<>>, Chains |-> <<>>, Timestamp |-> 0]

\* platformvm.Codec.Unmarshal into a platformvm.Genesis: the genesis and an
\* error, which is not nil when the bytes end early or late.  The chains come
\* back without their IDs.
Unmarshal(bytes) ==
    LET failed == [genesis |-> ZeroGenesis, err |-> "unmarshal failed"]
        na == bytes[1]
        nv == bytes[na + 2]
        nc == bytes[na + nv + 3]
        c0 == na + nv + 3
    IN  IF Len(bytes) < 1 \/ Len(bytes) < na + 2
        THEN failed
        ELSE IF Len(bytes) < na + nv + 3
        THEN failed
        ELSE IF Len(bytes) # c0 + 2 * nc + 1
        THEN failed
        ELSE [genesis |->
                 [Accounts |-> SubSeq(bytes, 2, na + 1),
                  Validators |-> SubSeq(bytes, na + 3, na + nv + 2),
                  Chains |-> [i \in 1..nc |->
                                 [ChainName |-> bytes[c0 + 2 * i - 1],
                                  VMID |-> bytes[c0 + 2 * i],
                                  id |-> idsEmpty]],
                  Timestamp |-> bytes[c0 + 2 * nc + 1]],
              err |-> NIL]

\* platformvm.Genesis.Initialize: every chain gets its ID, which is derived
\* from the chain's contents.
Initialize(genesis) ==
    [genesis EXCEPT !.Chains =
        [i \in DOMAIN genesis.Chains |->
            [genesis.Chains[i] EXCEPT
                !.id = <<"ID", genesis.Chains[i].ChainName,
                         genesis.Chains[i].VMID>>]]]

\* A genesis state that declares an X chain.
genesisState_WithChain ==
    [Accounts |-> <<>>, Validators |-> <<>>,
     Chains |-> <<[ChainName |-> "X-Chain", VMID |-> avmID, id |-> idsEmpty]>>,
     Timestamp |-> 0]

\* The genesis state Genesis marshals.
genesisState ==
    [Accounts |-> <<>>, Validators |-> <<>>, Chains |-> <<>>, Timestamp |-> 0]

\* Genesis accepting the testnet as well.
Genesis_AlsoTestnet(networkID) ==
    IF networkID # U32(LocalID) /\ networkID # U32(TestnetID)
    THEN [panic |-> "unknown network ID provided", bytes |-> <<>>]
    ELSE [panic |-> NIL, bytes |-> Marshal(genesisState)]

\* Genesis returns the genesis data of the Platform Chain.
Genesis(networkID) ==
    IF networkID # U32(LocalID)
    THEN [panic |-> "unknown network ID provided", bytes |-> <<>>]
    ELSE [panic |-> NIL, bytes |-> Marshal(genesisState)]

\* m[k] = v on a Go map.
MapSet(m, k, v) ==
    [x \in DOMAIN m \cup {k} |-> IF x = k THEN v ELSE m[x]]

\* The body of the loop of Aliases for one chain.
AliasChain(maps, chain) ==
    LET bc == <<"bc/", chain.id>>
        put(general, chainA) ==
            [maps EXCEPT !.generalAliases = MapSet(@, bc, general),
                         !.chainAliases = MapSet(@, chain.id, chainA)]
    IN  CASE chain.VMID = avmID ->
                put(<<"X", "avm", "bc/X", "bc/avm">>, <<"X", "avm">>)
          [] chain.VMID = evmID ->
                put(<<"C", "evm", "bc/C", "bc/evm">>, <<"C", "evm">>)
          [] chain.VMID = spdagvmID -> put(<<"bc/spdag">>, <<"spdag">>)
          [] chain.VMID = spchainvmID -> put(<<"bc/spchain">>, <<"spchain">>)
          [] chain.VMID = timestampvmID ->
                put(<<"bc/timestamp">>, <<"timestamp">>)
          [] OTHER -> maps

RECURSIVE AliasChains(_, _)
AliasChains(maps, chains) ==
    IF chains = <<>>
    THEN maps
    ELSE AliasChains(AliasChain(maps, Head(chains)), Tail(chains))

\* The maps Aliases starts from.
DefaultAliases ==
    [generalAliases |->
        [k \in {<<"vm/", platformvmID>>, <<"vm/", avmID>>, <<"vm/", evmID>>,
                <<"vm/", spdagvmID>>, <<"vm/", spchainvmID>>,
                <<"vm/", timestampvmID>>, <<"bc/", idsEmpty>>} |->
            CASE k = <<"vm/", platformvmID>> -> <<"vm/platform">>
              [] k = <<"vm/", avmID>> -> <<"vm/avm">>
              [] k = <<"vm/", evmID>> -> <<"vm/evm">>
              [] k = <<"vm/", spdagvmID>> -> <<"vm/spdag">>
              [] k = <<"vm/", spchainvmID>> -> <<"vm/spchain">>
              [] k = <<"vm/", timestampvmID>> -> <<"vm/timestamp">>
              [] k = <<"bc/", idsEmpty>> ->
                    <<"P", "platform", "bc/P", "bc/platform">>],
     chainAliases |-> [k \in {idsEmpty} |-> <<"P", "platform">>],
     vmAliases |->
        [k \in {platformvmID, avmID, evmID, spdagvmID, spchainvmID,
                timestampvmID} |->
            CASE k = platformvmID -> <<"platform">>
              [] k = avmID -> <<"avm">>
              [] k = evmID -> <<"evm">>
              [] k = spdagvmID -> <<"spdag">>
              [] k = spchainvmID -> <<"spchain">>
              [] k = timestampvmID -> <<"timestamp">>]]

\* Aliases returns the default aliases based on the network ID.  The error
\* of Unmarshal and the result of Initialize are not looked at.
Aliases(networkID) ==
    LET genesisBytes == Genesis(networkID)
        genesis == Initialize(Unmarshal(genesisBytes.bytes).genesis)
    IN  IF genesisBytes.panic # NIL
        THEN [panic |-> genesisBytes.panic, maps |-> <<>>]
        ELSE [panic |-> NIL,
              maps |-> AliasChains(DefaultAliases, genesis.Chains)]

RECURSIVE FindChain(_, _)
FindChain(chains, vmID) ==
    IF chains = <<>>
    THEN NIL
    ELSE IF Head(chains).VMID = vmID
    THEN Head(chains)
    ELSE FindChain(Tail(chains), vmID)

\* VMGenesis ...
VMGenesis(networkID, vmID) ==
    LET genesisBytes == Genesis(networkID)
        genesis == Unmarshal(genesisBytes.bytes).genesis
    IN  IF genesisBytes.panic # NIL
        THEN [panic |-> genesisBytes.panic, chain |-> NIL]
        ELSE [panic |-> NIL, chain |-> FindChain(genesis.Chains, vmID)]

\* The inputs.
Limbs == {0, 1, 2, 3, 10, LocalID, 2^15 - 1, 2^15, Base - 1}
NetworkIDs == {<<lo, hi>> : lo \in Limbs, hi \in Limbs}
VMIDs == {platformvmID, avmID, evmID, spdagvmID, spchainvmID, timestampvmID,
          "other"}

Heads == {<<>>, <<"x">>, <<"-">>, <<"x", "x">>}
Stems == {
    <<>>,
    <<"n", "e", "t", "w", "o", "r", "k", "-">>,
    <<"N", "e", "t", "w", "o", "r", "k", "-">>,
    <<"n", "e", "t", "w", "o", "r", "k">>,
    <<"n", "e", "t", "w", "o", "r", "k", "-", "-">>,
    <<"n", "e", "t", "w", "o", "r", "k", "-", "+">>,
    <<"m", "a", "i", "n", "n", "e", "t">>,
    <<"T", "E", "S", "T", "N", "E", "T">>,
    <<"b", "o", "r", "e", "a", "l", "i", "s">>,
    <<"L", "o", "c", "a", "l">>}
Numerals == {
    <<>>,
    <<"0">>,
    <<"5">>,
    <<"0", "0", "7">>,
    <<"1", "2", "3", "4", "5">>,
    <<"4", "2", "9", "4", "9", "6", "7", "2", "9", "5">>,
    <<"4", "2", "9", "4", "9", "6", "7", "2", "9", "6">>,
    <<"9", "2", "2", "3", "3", "7", "2", "0", "3", "6", "8", "5", "4", "7",
      "7", "5", "8", "0", "7">>,
    <<"9", "2", "2", "3", "3", "7", "2", "0", "3", "6", "8", "5", "4", "7",
      "7", "5", "8", "0", "8">>,
    <<"1", "8", "4", "4", "6", "7", "4", "4", "0", "7", "3", "7", "0", "9",
      "5", "5", "1", "6", "1", "5">>,
    <<"1", "8", "4", "4", "6", "7", "4", "4", "0", "7", "3", "7", "0", "9",
      "5", "5", "1", "6", "1", "6">>}
Tails == {<<>>, <<"x">>}
Names == {h \o m \o n \o t :
             h \in Heads, m \in Stems, n \in Numerals, t \in Tails}

\* A call of the package: about to be made (pc = "call") or returned.
Pending(fn, arg) ==
    [pc |-> "call", fn |-> fn, arg |-> arg, ret |-> <<>>, from |-> <<>>]

Ret(fn, arg, ret, from) ==
    [pc |-> "done", fn |-> fn, arg |-> arg, ret |-> ret, from |-> from]

CallNetworkName ==
    /\ g.pc = "call" /\ g.fn = "NetworkName"
    /\ g' = Ret("NetworkName", g.arg, NetworkName(g.arg[1]), <<>>)
    /\ UNCHANGED <<s, pre, last>>

CallNetworkID ==
    /\ g.pc = "call" /\ g.fn = "NetworkID"
    /\ g' = Ret("NetworkID", g.arg, NetworkID(g.arg[1]), <<>>)
    /\ UNCHANGED <<s, pre, last>>

\* NetworkID applied to the name NetworkName has just returned.
CallNetworkIDOfName ==
    /\ g.pc = "done" /\ g.fn = "NetworkName"
    /\ g' = Ret("NetworkID", <<g.ret>>, NetworkID(g.ret), g.arg)
    /\ UNCHANGED <<s, pre, last>>

CallGenesis ==
    /\ g.pc = "call" /\ g.fn = "Genesis"
    /\ g' = Ret("Genesis", g.arg, Genesis(g.arg[1]), <<>>)
    /\ UNCHANGED <<s, pre, last>>

CallAliases ==
    /\ g.pc = "call" /\ g.fn = "Aliases"
    /\ g' = Ret("Aliases", g.arg, Aliases(g.arg[1]), <<>>)
    /\ UNCHANGED <<s, pre, last>>

CallVMGenesis ==
    /\ g.pc = "call" /\ g.fn = "VMGenesis"
    /\ g' = Ret("VMGenesis", g.arg, VMGenesis(g.arg[1], g.arg[2]), <<>>)
    /\ UNCHANGED <<s, pre, last>>

\* One call of one function of the package, with its arguments.
GenesisInit ==
    /\ s = ExternalSenderTest(NIL, NIL, {}, {})
    /\ pre = s
    /\ last = NoCall
    /\ \/ \E networkID \in NetworkIDs :
             g \in {Pending("NetworkName", <<networkID>>),
                    Pending("Genesis", <<networkID>>),
                    Pending("Aliases", <<networkID>>)}
       \/ \E networkName \in Names : g = Pending("NetworkID", <<networkName>>)
       \/ \E networkID \in NetworkIDs, vmID \in VMIDs :
             g = Pending("VMGenesis", <<networkID, vmID>>)

GenesisNext ==
    \/ CallNetworkName
    \/ CallNetworkID
    \/ CallNetworkIDOfName
    \/ CallGenesis
    \/ CallAliases
    \/ CallVMGenesis

GenesisSpec == GenesisInit /\ [][GenesisNext]_vars

(***************************************************************************)
(* Part III.  The claims                                                   *)
(***************************************************************************)

\* The last method call was one of the nine operations.
OpCalled == last.op \in Ops

MsgOf(op) ==
    CASE op = "GetAcceptedFrontier" -> "Unexpectedly called GetAcceptedFrontier"
      [] op = "AcceptedFrontier" -> "Unexpectedly called AcceptedFrontier"
      [] op = "GetAccepted" -> "Unexpectedly called GetAccepted"
      [] op = "Accepted" -> "Unexpectedly called Accepted"
      [] op = "Get" -> "Unexpectedly called Get"
      [] op = "Put" -> "Unexpectedly called Put"
      [] op = "PushQuery" -> "Unexpectedly called PushQuery"
      [] op = "PullQuery" -> "Unexpectedly called PullQuery"
      [] op = "Chits" -> "Unexpectedly called Chits"

\* C1 as stated: an operation invoked with its handler unset and its flag
\* set reports a fatal failure, whatever T and B are, also when both are nil.
C1_FatalWhateverTB ==
    (OpCalled /\ pre[HandlerOf(last.op)] = NIL /\ pre[FlagOf(last.op)])
        => last.fatalOn # NIL

\* C1 amended: an operation invoked with its handler unset and its flag set
\* calls Fatalf with "Unexpectedly called <op>" on T when T is set, else on B
\* when B is set; when neither T nor B is set it reports nothing.
C1_FatalWhenTestingSet ==
    (OpCalled /\ pre[HandlerOf(last.op)] = NIL /\ pre[FlagOf(last.op)])
        => /\ last.called = NIL
           /\ (pre.T # NIL => last.fatalOn = "T")
           /\ (pre.T = NIL /\ pre.B # NIL => last.fatalOn = "B")
           /\ (pre.T = NIL /\ pre.B = NIL => last.fatalOn = NIL)
           /\ (last.fatalOn # NIL => last.msg = MsgOf(last.op))

C1_Witness ==
    /\ last.op = "Chits" /\ pre.ChitsF = NIL /\ pre.CantChits
    /\ pre.T = NIL /\ pre.B # NIL
    /\ last.fatalOn = "B"

\* C2: an operation whose handler is set calls that handler, with exactly the
\* caller's arguments in the caller's order, and reports no failure, whatever
\* its flag, T and B are.
C2_HandlerGetsArguments ==
    (OpCalled /\ pre[HandlerOf(last.op)] # NIL)
        => /\ last.called = HandlerOf(last.op)
           /\ last.passed = last.args
           /\ last.fatalOn = NIL

C2_Witness ==
    /\ last.op = "Put" /\ pre.PutF # NIL /\ pre.CantPut /\ pre.T # NIL
    /\ last.args[2] # last.args[4]
    /\ last.called = "PutF"

\* C3: what an operation does is decided by its own handler and its own flag
\* (with T and B) alone: it calls no handler but its own, and it fails only
\* when its own handler is unset and its own flag set.
C3_OwnFieldsDecide ==
    OpCalled =>
        LET handler == pre[HandlerOf(last.op)]
            cant == pre[FlagOf(last.op)]
        IN  /\ last.called = IF handler # NIL THEN HandlerOf(last.op) ELSE NIL
            /\ last.fatalOn =
                  IF handler = NIL /\ cant /\ pre.T # NIL THEN "T"
                  ELSE IF handler = NIL /\ cant /\ pre.B # NIL THEN "B"
                  ELSE NIL
            /\ last.msg = IF last.fatalOn # NIL THEN MsgOf(last.op) ELSE ""

C3_Witness ==
    /\ last.op = "PushQuery" /\ pre.PushQueryF = NIL
    /\ ~pre.CantPushQuery /\ pre.CantPullQuery /\ pre.T # NIL
    /\ last.called = NIL /\ last.fatalOn = NIL

RequestOps == {"GetAcceptedFrontier", "GetAccepted", "Get", "PushQuery",
               "PullQuery"}
ResponseOps == {"AcceptedFrontier", "Accepted", "Put", "Chits"}

\* C4 as stated: every request-style operation, Get among them, is called
\* with a set of peers and every response-style operation with one peer.
C4_RequestsTargetSets ==
    /\ last.op \in RequestOps => last.args[1] \in ShortSets
    /\ last.op \in ResponseOps => last.args[1] \in ShortIDs

\* C4 amended: GetAcceptedFrontier, GetAccepted, PushQuery and PullQuery are
\* called with a set of peers; Get and the response-style operations
\* AcceptedFrontier, Accepted, Put and Chits with exactly one peer.
C4_GetTargetsOnePeer ==
    /\ last.op \in RequestOps \ {"Get"} => last.args[1] \in ShortSets
    /\ last.op \in ResponseOps \cup {"Get"} => last.args[1] \in ShortIDs

C4_Witness ==
    /\ last.op = "Get" /\ last.args[1] \in ShortIDs
    /\ pre.GetF # NIL /\ last.passed[1] = last.args[1]

\* The handler fields of a sender that are set.
HandlersSet(sender) == {f \in HandlerFields : sender[f] # NIL}

\* C5: after Default(cant) the nine flags equal cant and the handlers, T and
\* B are as they were, so the state after Default depends on the flags before
\* it in nothing; the nine operations change no field of the sender.
C5_DefaultSetsFlagsOnly ==
    /\ last.op = "Default" =>
          /\ \A f \in CantFields : s[f] = last.args[1]
          /\ s = ExternalSenderTest(pre.T, pre.B,
                                    IF last.args[1] THEN CantFields ELSE {},
                                    HandlersSet(pre))
    /\ OpCalled => s = pre

C5_Witness ==
    /\ last.op = "Default" /\ last.args[1]
    /\ ~pre.CantChits /\ pre.CantPut /\ pre.PutF # NIL /\ pre.T # NIL
    /\ s.CantChits /\ s.PutF # NIL

\* C6: an operation invoked with its handler unset and its flag false calls
\* no handler, reports no failure on T or B and changes nothing; so a sender
\* with every flag false and no handler never reports a failure.
C6_SilentNoOp ==
    /\ (OpCalled /\ pre[HandlerOf(last.op)] = NIL /\ ~pre[FlagOf(last.op)])
          => /\ last.called = NIL
             /\ last.fatalOn = NIL
             /\ s = pre
    /\ (OpCalled /\ HandlersSet(s) = {} /\ \A f \in CantFields : ~s[f])
          => last.fatalOn = NIL

C6_Witness ==
    /\ last.op = "Get" /\ pre.GetF = NIL /\ ~pre.CantGet
    /\ pre.T # NIL /\ pre.B # NIL
    /\ last.fatalOn = NIL /\ last.called = NIL

IsNumeral(str) ==
    str # <<>> /\ \A i \in DOMAIN str : str[i] \in Range(DigitChars)

IsNetworkNumeral(str) ==
    /\ Len(str) > 8
    /\ SubSeq(str, 1, 8) = NetworkPrefix
    /\ IsNumeral(SubSeq(str, 9, Len(str)))

RECURSIVE StripZeros(_)
StripZeros(str) ==
    IF Len(str) > 1 /\ Head(str) = "0" THEN StripZeros(Tail(str)) ELSE str

\* C7: for a name that is none of the four known names, NetworkID returns an
\* id without error only for a plain decimal numeral or "network-" followed
\* by decimal digits, and the id is then the number the digits denote (so it
\* lies in [0, 2^32)); every other name yields an error, and every error
\* comes with id 0.
C7_OnlyWellFormedNamesParse ==
    (g.pc = "done" /\ g.fn = "NetworkID"
     /\ ToLower(g.arg[1]) \notin DOMAIN NetworkNameToNetworkID)
        => LET name == ToLower(g.arg[1])
               wellFormed == IsNumeral(name) \/ IsNetworkNumeral(name)
               digits == IF IsNumeral(name)
                         THEN name
                         ELSE SubSeq(name, 9, Len(name))
           IN  /\ g.ret.err = NIL =>
                     /\ wellFormed
                     /\ StripZeros(digits) = FormatUint32(g.ret.id)
               /\ ~wellFormed => g.ret.err # NIL
               /\ g.ret.err # NIL => g.ret.id = U32(0)

\* C8: NetworkID(NetworkName(networkID)) returns networkID and a nil error,
\* for every 32-bit networkID.
C8_NetworkIDInvertsNetworkName ==
    (g.pc = "done" /\ g.fn = "NetworkID" /\ g.from # <<>>)
        => g.ret = [id |-> g.from[1], err |-> NIL]

C8_Witness ==
    /\ g.pc = "done" /\ g.fn = "NetworkID"
    /\ g.from = <<<<Base - 1, Base - 1>>>>
    /\ IsNetworkNumeral(g.arg[1])
    /\ g.ret.id = <<Base - 1, Base - 1>>

\* C9: Genesis returns bytes exactly for LocalID and panics with "unknown
\* network ID provided" for every other networkID; Aliases and VMGenesis
\* panic for the same networkIDs, with the same message and no result.
C9_OnlyLocalHasGenesis ==
    (g.pc = "done" /\ g.fn \in {"Genesis", "Aliases", "VMGenesis"})
        => /\ g.arg[1] = U32(LocalID) => g.ret.panic = NIL
           /\ g.arg[1] # U32(LocalID) =>
                 /\ g.ret.panic = "unknown network ID provided"
                 /\ g.fn = "Genesis" => g.ret.bytes = <<>>
                 /\ g.fn = "Aliases" => g.ret.maps = <<>>
                 /\ g.fn = "VMGenesis" => g.ret.chain = NIL

C9_Witness ==
    /\ g.pc = "done" /\ g.fn = "Aliases" /\ g.arg[1] = U32(TestnetID)
    /\ g.ret.panic # NIL

\* C10: the genesis of LocalID holds no chain, account or validator, so
\* VMGenesis(LocalID, vmID) is nil for every vmID and Aliases(LocalID) returns
\* the default maps only: one chain alias entry, for the platform chain, and
\* the six "vm/" entries and the platform chain's "bc/" entry.
C10_LocalGenesisHasNoChains ==
    (g.pc = "done" /\ g.fn \in {"Genesis", "Aliases", "VMGenesis"}
     /\ g.arg[1] = U32(LocalID))
        => /\ g.fn = "Genesis" =>
                 LET genesis == Unmarshal(g.ret.bytes).genesis
                 IN  /\ genesis.Chains = <<>>
                     /\ genesis.Accounts = <<>>
                     /\ genesis.Validators = <<>>
           /\ g.fn = "VMGenesis" => g.ret.chain = NIL
           /\ g.fn = "Aliases" =>
                 /\ DOMAIN g.ret.maps.chainAliases = {idsEmpty}
                 /\ g.ret.maps.chainAliases[idsEmpty] = <<"P", "platform">>
                 /\ DOMAIN g.ret.maps.generalAliases =
                       {<<"vm/", vm>> : vm \in VMIDs \ {"other"}}
                          \cup {<<"bc/", idsEmpty>>}

C10_Witness ==
    /\ g.pc = "done" /\ g.fn = "VMGenesis"
    /\ g.arg = <<U32(LocalID), avmID>>
    /\ g.ret.panic = NIL /\ g.ret.chain = NIL

====
